---- MODULE Spec2Model ----
(***************************************************************************)
(* The two-phase interview scheduler of src/scheduler.py                   *)
(* (OptimizedInterviewScheduler): construction and validation of a         *)
(* request, Phase 1 (one CP-SAT model per stage permutation, trained       *)
(* interviewers only, solutions collected by a callback), the merge and    *)
(* ranking of the collected solutions, and Phase 2 (the greedy enrichment  *)
(* with shadow and reverse_shadow interviewers).                           *)
(*                                                                         *)
(* Times are minutes.  A datetime is the number of minutes since 00:00 of  *)
(* calendar day 0; an ISO string "%Y-%m-%dT%H:%M" is the record            *)
(* [day, hh, mm].  The CP-SAT solver is external: a solve is the           *)
(* nondeterministic report of solutions that satisfy every constraint the  *)
(* code adds to the model.                                                 *)
(***************************************************************************)
EXTENDS Integers, Sequences, FiniteSets, TLC

VARIABLES
    request,              \* the arguments of __init__
    pc,                   \* position of the caller
    error,                \* the ValueError raised by __init__, or "none"
    stages,               \* self.stages
    interviewers,         \* self.interviewers (dict, insertion ordered)
    all_interviewers,     \* self.all_interviewers
    availability,         \* self.availability
    busy_intervals,       \* self.busy_intervals
    epoch,                \* self.epoch
    original,             \* original_stages / _interviewers / _all_interviewers
    stage_permutations,   \* solve(): stage_permutations
    perm_idx,             \* solve(): index of the permutation being solved
    remaining_solutions,  \* solve(): remaining_solutions
    all_solutions,        \* solve(): all_solutions
    solutions,            \* SolutionCollector.solutions
    last_objective,       \* objective of the last solution the solver reported
    phase1_result,        \* solve_with_two_phase_approach(): phase1_result
    result                \* the value solve_with_two_phase_approach() returns

vars == <<request, pc, error, stages, interviewers, all_interviewers,
          availability, busy_intervals, epoch, original, stage_permutations,
          perm_idx, remaining_solutions, all_solutions, solutions,
          last_objective, phase1_result, result>>

-----------------------------------------------------------------------------
(* Bounds of the model                                                     *)

MaxTopK == 2
MaxLoad == 1
MaxSeats == 2

(* Program constants                                                       *)

MINUTES_PER_DAY == 1440
SAME_DAY_GAP == 120
FAIRNESS_FACTOR == 100

-----------------------------------------------------------------------------
(* Utilities (scheduler.py 17-29)                                          *)

to_iso(dt) ==
    [day |-> dt \div MINUTES_PER_DAY,
     hh  |-> (dt % MINUTES_PER_DAY) \div 60,
     mm  |-> dt % 60]

parse_iso(s) == s.day * MINUTES_PER_DAY + s.hh * 60 + s.mm

minutes_since_epoch(dt, ep) == dt - ep

datetime_from_minutes(minutes, ep) == ep + minutes

date(dt) == dt \div MINUTES_PER_DAY

Max(a, b) == IF a >= b THEN a ELSE b

Min(a, b) == IF a <= b THEN a ELSE b

SetMax(S) == CHOOSE x \in S : \A y \in S : y <= x

SetMin(S) == CHOOSE x \in S : \A y \in S : x <= y

Range(s) == {s[i] : i \in 1..Len(s)}

RECURSIVE SumSeq(_)
SumSeq(s) == IF s = <<>> THEN 0 ELSE Head(s) + SumSeq(Tail(s))

RECURSIVE Concat(_)
Concat(ss) == IF ss = <<>> THEN <<>> ELSE Head(ss) \o Concat(Tail(ss))

ROLES == <<"trained", "shadow", "reverse_shadow">>

(* sorted() of a set of interviewer ids: the ids of the model in string order *)
IdOrder == <<"r1", "r2", "s1", "s2", "t1", "t2">>

sorted(S) == SelectSeq(IdOrder, LAMBDA x : x \in S)

-----------------------------------------------------------------------------
(* Dicts keep insertion order: a dict is a sequence of <<key, value>>      *)
(* pairs with distinct keys.                                               *)

Keys(d) == [i \in 1..Len(d) |-> d[i][1]]

HasKey(d, k) == \E i \in 1..Len(d) : d[i][1] = k

Get(d, k) == d[CHOOSE i \in 1..Len(d) : d[i][1] = k][2]

GetOr(d, k, default) == IF HasKey(d, k) THEN Get(d, k) ELSE default

Put(d, k, v) ==
    IF HasKey(d, k)
    THEN [i \in 1..Len(d) |-> IF d[i][1] = k THEN <<k, v>> ELSE d[i]]
    ELSE Append(d, <<k, v>>)

Values(d) == [i \in 1..Len(d) |-> d[i][2]]

-----------------------------------------------------------------------------
(* The requests of the model                                               *)

InterviewerData(id, cl, l2w, mode) ==
    [id |-> id, current_load |-> cl, last2w_load |-> l2w, mode |-> mode]

InterviewersData ==
    { << InterviewerData("t1", c, l, "trained"),
         InterviewerData("s1", 0, 0, "shadow"),
         InterviewerData("t2", 0, 0, "trained"),
         InterviewerData("r1", 0, 0, "reverse_shadow"),
         InterviewerData("s2", c, 0, "shadow") >> :
         c \in 0..MaxLoad, l \in 0..MaxLoad }
    \cup { << InterviewerData("t1", 0, 0, "trained"),
              InterviewerData("t2", 0, 0, "trained") >> }

SeatIdOrder == <<"a", "b", "c">>

SeatsData(k) == [i \in 1..k |-> [seat_id |-> SeatIdOrder[i]]]

StageData(name, d, k, f) ==
    [stage_name |-> name, duration |-> d, seats |-> SeatsData(k), is_fixed |-> f]

Durations == {360, 480}

(* one stage, or two stages of which the first may be fixed *)
StagesData(ds, ks) ==
    { << StageData("S1", d, k, FALSE) >> : d \in ds, k \in ks }
    \cup { << StageData("S1", d, k, f), StageData("S2", 360, 1, FALSE) >> :
           d \in ds, k \in ks, f \in BOOLEAN }

InvalidStagesData ==
    { <<>>, << StageData("S1", 0, 1, FALSE) >>, << StageData("S1", 360, 0, FALSE) >>,
      << StageData("S1", 480, 1, FALSE), StageData("S2", -30, 1, FALSE) >>,
      << StageData("S1", 480, 1, FALSE), StageData("S2", 360, 0, FALSE) >> }

WindowData(s, e) == [start |-> to_iso(s), end |-> to_iso(e)]

(* day 0 18:00 - day 1 02:00 and day 1 18:00 - day 2 02:00; a window from   *)
(* day 0 12:00 to day 1 12:00 that overlaps the first; a window inside     *)
(* day 0; a window that ends at midnight                                   *)
ValidAvailabilityData ==
    { << WindowData(1080, 1560) >>,
      << WindowData(2520, 3000), WindowData(1080, 1560) >>,
      << WindowData(1080, 1560), WindowData(720, 2160), WindowData(2520, 3000) >>,
      << WindowData(720, 1200) >>,
      << WindowData(1080, 1440) >> }

InvalidAvailabilityData ==
    { <<>>, << WindowData(1080, 1080) >>,
      << WindowData(1080, 1560), WindowData(3000, 2520) >> }

(* lists in which a mode has no interviewer *)
MissingModeInterviewersData ==
    { << InterviewerData("s1", 0, 0, "shadow"),
         InterviewerData("r1", 0, 0, "reverse_shadow") >>,
      << InterviewerData("t1", 0, 0, "trained"),
         InterviewerData("s1", 0, 0, "shadow") >>,
      << InterviewerData("t1", 0, 0, "trained"),
         InterviewerData("r1", 0, 0, "reverse_shadow") >>,
      << InterviewerData("t1", 0, 0, "trained"),
         InterviewerData("t2", 0, 0, "trained") >>,
      <<>> }

BusyData(id, s, e) == [interviewer_id |-> id, start |-> to_iso(s), end |-> to_iso(e)]

BusyIntervalsData ==
    { <<>>,
      << BusyData("t1", 1000, 1100) >>,
      << BusyData("s1", 1400, 1500), BusyData("t2", 2500, 2600) >> }

TimeSteps == {360, 720}

WeeklyLimits == {1, 2}

MinGaps == {0, 600}

Request(st, iv, av, bz, step, wl, rdd, k, sd, gap) ==
    [stages |-> st, interviewers |-> iv, availability_windows |-> av,
     busy_intervals |-> bz, time_step_minutes |-> step, weekly_limit |-> wl,
     require_distinct_days |-> rdd, top_k_solutions |-> k,
     schedule_on_same_day |-> sd, min_gap_between_stages |-> gap]

BaseInterviewers ==
    << InterviewerData("t1", 0, 1, "trained"),
       InterviewerData("s1", 0, 0, "shadow"),
       InterviewerData("t2", 0, 0, "trained"),
       InterviewerData("r1", 0, 0, "reverse_shadow"),
       InterviewerData("s2", 0, 0, "shadow") >>

BaseAvailability == << WindowData(2520, 3000), WindowData(1080, 1560) >>

(* the requests that vary the stages, the windows and the day policy *)
TimingRequests ==
    { Request(st, BaseInterviewers, av, <<>>, step, 2, rdd, 1, sd, gap) :
        st \in StagesData(Durations, {1}), av \in ValidAvailabilityData, step \in TimeSteps,
        rdd \in BOOLEAN, sd \in BOOLEAN, gap \in MinGaps }

(* the requests that vary the interviewers, their busy intervals and loads, *)
(* the weekly limit and the number of schedules asked for                  *)
StaffingRequests ==
    { Request(st, iv, BaseAvailability, bz, 360, wl, FALSE, k, TRUE, 0) :
        st \in StagesData({480}, 1..MaxSeats), iv \in InterviewersData,
        bz \in BusyIntervalsData,
        wl \in WeeklyLimits, k \in 0..MaxTopK }

(* the requests __init__ rejects for their stages, windows or interviewers *)
InvalidRequests ==
    { Request(st, BaseInterviewers, av, <<>>, 360, 2, FALSE, MaxTopK, sd, 0) :
        st \in InvalidStagesData, av \in {BaseAvailability, << WindowData(720, 1200) >>},
        sd \in BOOLEAN }
    \cup { Request(st, BaseInterviewers, av, <<>>, 360, 2, FALSE, MaxTopK, sd, 0) :
           st \in StagesData({480}, {1}), av \in InvalidAvailabilityData, sd \in BOOLEAN }
    \cup { Request(st, iv, av, <<>>, 360, 2, FALSE, MaxTopK, sd, 0) :
           st \in StagesData({480}, {1}), iv \in MissingModeInterviewersData,
           av \in {BaseAvailability, << WindowData(720, 1200) >>}, sd \in BOOLEAN }

Requests == TimingRequests \cup StaffingRequests \cup InvalidRequests

-----------------------------------------------------------------------------
(* Construction: OptimizedInterviewScheduler.__init__                      *)

InterviewerInfo(d) ==
    [id |-> d.id, current_load |-> d.current_load,
     last2w_load |-> d.last2w_load, mode |-> d.mode]

(* the dict id -> InterviewerInfo, as the sequence of its values: a         *)
(* repeated id overwrites the value and keeps the first position           *)
RECURSIVE _parse_interviewers(_)
_parse_interviewers(interviewers_data) ==
    IF interviewers_data = <<>> THEN <<>>
    ELSE LET n    == Len(interviewers_data)
             rest == _parse_interviewers(SubSeq(interviewers_data, 1, n - 1))
             info == InterviewerInfo(interviewers_data[n])
         IN  IF \E i \in 1..Len(rest) : rest[i].id = info.id
             THEN [i \in 1..Len(rest) |-> IF rest[i].id = info.id THEN info ELSE rest[i]]
             ELSE Append(rest, info)

SeatRole(seat_id, role, ivs) == [seat_id |-> seat_id, role |-> role, interviewers |-> ivs]

Stage(name, duration, seats, is_fixed) ==
    [name |-> name, duration_minutes |-> duration, seats |-> seats, is_fixed |-> is_fixed]

(* mutant: the pool of a role holds every interviewer, whatever the mode *)
RoleInterviewersAnyMode(ivs, role) == [i \in 1..Len(ivs) |-> ivs[i].id]

(* ids of the interviewers of one mode, in dict order *)
RoleInterviewers(ivs, role) ==
    LET sel == SelectSeq(ivs, LAMBDA iv : iv.mode = role)
    IN  [i \in 1..Len(sel) |-> sel[i].id]

_parse_stages(stages_data, ivs) ==
    [s \in 1..Len(stages_data) |->
        Stage(stages_data[s].stage_name,
              stages_data[s].duration,
              Concat([k \in 1..Len(stages_data[s].seats) |->
                        [r \in 1..Len(ROLES) |->
                            SeatRole(stages_data[s].seats[k].seat_id, ROLES[r],
                                     RoleInterviewers(ivs, ROLES[r]))]]),
              stages_data[s].is_fixed)]

AvailabilityWindow(w) == [start |-> parse_iso(w.start), end |-> parse_iso(w.end)]

BusyInterval(b) ==
    [interviewer_id |-> b.interviewer_id, start |-> parse_iso(b.start), end |-> parse_iso(b.end)]

(* mutant: only the day on which a window starts is counted *)
DistinctStartDays(windows) == { date(windows[j].start) : j \in 1..Len(windows) }

(* the calendar days the windows touch (scheduler.py 254-261) *)
DistinctDays(windows) ==
    UNION { date(windows[j].start)..date(windows[j].end) : j \in 1..Len(windows) }

(* mutant: the candidate pools of a stage are not looked at *)
StageErrorPoolsUnchecked(stage) ==
    IF stage.duration_minutes <= 0 THEN "invalid_duration"
    ELSE IF stage.seats = <<>> THEN "no_seats"
    ELSE "none"

(* the error the loop body of _validate_inputs raises for one stage *)
StageError(stage) ==
    IF stage.duration_minutes <= 0 THEN "invalid_duration"
    ELSE IF stage.seats = <<>> THEN "no_seats"
    ELSE IF \E k \in 1..Len(stage.seats) : stage.seats[k].interviewers = <<>>
         THEN "empty_pool"
    ELSE "none"

(* mutant: the availability windows are not validated *)
ValidateWindowsUnchecked(stgs, windows, same_day) ==
    LET bad == {i \in 1..Len(stgs) : StageError(stgs[i]) # "none"}
    IN  IF stgs = <<>> THEN "no_stages"
        ELSE IF bad # {} THEN StageError(stgs[SetMin(bad)])
        ELSE IF ~same_day /\ Cardinality(DistinctDays(windows)) < Len(stgs)
             THEN "insufficient_days"
        ELSE "none"

(* _validate_inputs: the first error it raises, or "none" *)
_validate_inputs(stgs, windows, same_day) ==
    LET bad == {i \in 1..Len(stgs) : StageError(stgs[i]) # "none"}
    IN  IF stgs = <<>> THEN "no_stages"
        ELSE IF bad # {} THEN StageError(stgs[SetMin(bad)])
        ELSE IF \E j \in 1..Len(windows) : windows[j].start >= windows[j].end
             THEN "invalid_window"
        ELSE IF ~same_day /\ Cardinality(DistinctDays(windows)) < Len(stgs)
             THEN "insufficient_days"
        ELSE "none"

AllInterviewers(stgs) ==
    sorted(UNION { UNION { Range(stgs[s].seats[k].interviewers) :
                             k \in 1..Len(stgs[s].seats) } : s \in 1..Len(stgs) })

NoResult == [status |-> "none", schedules |-> <<>>]

NoOriginal == [stages |-> <<>>, interviewers |-> <<>>, all_interviewers |-> <<>>]

Init ==
    /\ request \in Requests
    /\ pc = "new"
    /\ error = "none"
    /\ stages = <<>>
    /\ interviewers = <<>>
    /\ all_interviewers = <<>>
    /\ availability = <<>>
    /\ busy_intervals = <<>>
    /\ epoch = 0
    /\ original = NoOriginal
    /\ stage_permutations = <<>>
    /\ perm_idx = 0
    /\ remaining_solutions = 0
    /\ all_solutions = <<>>
    /\ solutions = <<>>
    /\ last_objective = -1
    /\ phase1_result = NoResult
    /\ result = NoResult

(* __init__ (scheduler.py 130-183) *)
Construct ==
    /\ pc = "new"
    /\ LET ivs     == _parse_interviewers(request.interviewers)
           stgs    == _parse_stages(request.stages, ivs)
           windows == [j \in 1..Len(request.availability_windows) |->
                          AvailabilityWindow(request.availability_windows[j])]
           busy    == [j \in 1..Len(request.busy_intervals) |->
                          BusyInterval(request.busy_intervals[j])]
           err     == IF windows = <<>> THEN "no_windows"
                      ELSE _validate_inputs(stgs, windows, request.schedule_on_same_day)
       IN  /\ interviewers' = ivs
           /\ stages' = stgs
           /\ availability' = windows
           /\ busy_intervals' = busy
           /\ epoch' = IF windows = <<>> THEN 0
                       ELSE SetMin({windows[j].start : j \in 1..Len(windows)})
           /\ all_interviewers' = IF windows = <<>> THEN <<>> ELSE AllInterviewers(stgs)
           /\ error' = err
           /\ pc' = IF err = "none" THEN "constructed" ELSE "error"
    /\ UNCHANGED <<request, original, stage_permutations, perm_idx, remaining_solutions,
                   all_solutions, solutions, last_objective, phase1_result, result>>

-----------------------------------------------------------------------------
(* generate_stage_permutations (scheduler.py 32-76)                        *)

RemoveAt(s, i) == SubSeq(s, 1, i - 1) \o SubSeq(s, i + 1, Len(s))

(* itertools.permutations: all orderings, lexicographic in the positions *)
RECURSIVE permutations(_)
permutations(s) ==
    IF s = <<>> THEN << <<>> >>
    ELSE Concat([i \in 1..Len(s) |->
                    LET rest == permutations(RemoveAt(s, i))
                    IN  [j \in 1..Len(rest) |-> <<s[i]>> \o rest[j]]])

(* mutant: every permutation of the stages, fixed or not *)
PermutationsIgnoringFixed(stgs) == permutations(stgs)

generate_stage_permutations(stgs) ==
    LET fixed_positions  == {i \in 1..Len(stgs) : stgs[i].is_fixed}
        non_fixed_stages == SelectSeq(stgs, LAMBDA st : ~st.is_fixed)
        perms            == permutations(non_fixed_stages)
        \* the number of non-fixed positions up to position i
        nth(i)           == Cardinality({j \in 1..i : j \notin fixed_positions})
    IN  IF Cardinality(fixed_positions) = Len(stgs) THEN <<stgs>>
        ELSE IF fixed_positions = {} THEN perms
        ELSE [p \in 1..Len(perms) |->
                [i \in 1..Len(stgs) |->
                    IF i \in fixed_positions THEN stgs[i] ELSE perms[p][nth(i)]]]

-----------------------------------------------------------------------------
(* Phase 1 set-up (scheduler.py 324-368)                                   *)

(* mutant: the pools of every role of a seat are merged, not the trained one alone *)
RECURSIVE TrainedPoolsAnyRole(_)
TrainedPoolsAnyRole(seats) ==
    IF seats = <<>> THEN <<>>
    ELSE LET n    == Len(seats)
             rest == TrainedPoolsAnyRole(SubSeq(seats, 1, n - 1))
             seat == seats[n]
         IN  Put(rest, seat.seat_id, GetOr(rest, seat.seat_id, <<>>) \o seat.interviewers)

(* seat_id_to_trained_interviewers of one stage, as a dict *)
RECURSIVE TrainedPools(_)
TrainedPools(seats) ==
    IF seats = <<>> THEN <<>>
    ELSE LET n    == Len(seats)
             rest == TrainedPools(SubSeq(seats, 1, n - 1))
             seat == seats[n]
         IN  IF seat.role = "trained"
             THEN Put(rest, seat.seat_id, GetOr(rest, seat.seat_id, <<>>) \o seat.interviewers)
             ELSE rest

TempStage(stage) ==
    LET pools == TrainedPools(stage.seats)
    IN  Stage(stage.name, stage.duration_minutes,
              [k \in 1..Len(pools) |-> SeatRole(pools[k][1], "trained", pools[k][2])],
              stage.is_fixed)

-----------------------------------------------------------------------------
(* The CP-SAT model of one permutation (scheduler.py 496-711).  A          *)
(* candidate is [start, assign]: start[i] is start_time_i and assign[i][k] *)
(* the interviewer whose assignment variable is 1 for the k-th seat-role   *)
(* of stage i.                                                             *)

latest_end == SetMax({minutes_since_epoch(availability[j].end, epoch) : j \in 1..Len(availability)})

(* mutant: start_time == start_steps, the step is not multiplied in *)
StartDomainUnscaled(stage) ==
    0..((latest_end - stage.duration_minutes) \div request.time_step_minutes)

(* start_time == start_steps * time_step, 0 <= start_steps <= max_start // time_step, *)
(* end_time == start_time + duration, 0 <= end_time <= latest_end                     *)
StartDomain(stage) ==
    LET max_start == latest_end - stage.duration_minutes
    IN  { k * request.time_step_minutes :
            k \in 0..(max_start \div request.time_step_minutes) }

EndOf(perm_stages, start, i) == start[i] + perm_stages[i].duration_minutes

MIN_GAP_MINUTES ==
    IF request.schedule_on_same_day
    THEN Max(SAME_DAY_GAP, request.min_gap_between_stages)
    ELSE Max(MINUTES_PER_DAY, request.min_gap_between_stages)

(* mutant: the stages are ordered but the minimum gap is left out *)
OrderedWithoutGap(perm_stages, start) ==
    \A i \in 1..(Len(perm_stages) - 1) : start[i + 1] >= EndOf(perm_stages, start, i)

(* scheduler.py 540-541 *)
OrderedWithGaps(perm_stages, start) ==
    \A i \in 1..(Len(perm_stages) - 1) :
        start[i + 1] >= EndOf(perm_stages, start, i) + MIN_GAP_MINUTES

(* scheduler.py 555-557: what in_window_{i,j} enforces *)
FitsWindow(perm_stages, start, i, j) ==
    /\ start[i] >= minutes_since_epoch(availability[j].start, epoch)
    /\ EndOf(perm_stages, start, i) <= minutes_since_epoch(availability[j].end, epoch)

(* mutant: only the start of a stage is held inside the window *)
InWindowsStartOnly(perm_stages, start) ==
    \A i \in 1..Len(perm_stages) : \E j \in 1..Len(availability) :
        /\ start[i] >= minutes_since_epoch(availability[j].start, epoch)
        /\ start[i] <= minutes_since_epoch(availability[j].end, epoch)

(* scheduler.py 544-560: exactly one indicator in_window_{i,j} is 1 and it *)
(* enforces the containment; the indicators that are 0 enforce nothing     *)
InWindows(perm_stages, start) ==
    \A i \in 1..Len(perm_stages) :
        \E j \in 1..Len(availability) : FitsWindow(perm_stages, start, i, j)

(* mutant: the distinct-day constraints are not added *)
DistinctDayRuleDropped(perm_stages, start) == TRUE

(* scheduler.py 562-583 *)
DistinctDayRule(perm_stages, start) ==
    (request.require_distinct_days \/ ~request.schedule_on_same_day) =>
        \A i \in 1..Len(perm_stages) : \A j \in (i + 1)..Len(perm_stages) :
            \/ start[j] >= start[i] + MINUTES_PER_DAY
            \/ start[i] >= start[j] + MINUTES_PER_DAY

(* interviewer_stage_vars[(i, iv)] exists: iv is in a pool of stage i *)
HasStageVar(perm_stages, i, iv) ==
    \E k \in 1..Len(perm_stages[i].seats) : iv \in Range(perm_stages[i].seats[k].interviewers)

(* interviewer_stage_vars[(i, iv)] = 1 (scheduler.py 617, 623-634) *)
Used(assign, i, iv) == \E k \in 1..Len(assign[i]) : assign[i][k] = iv

(* mutant: an interviewer may take several seats of a stage *)
AtMostOnceDropped(perm_stages, assign) == TRUE

(* scheduler.py 636-650 *)
AtMostOncePerStage(perm_stages, assign) ==
    \A i \in 1..Len(perm_stages) : \A k1, k2 \in 1..Len(assign[i]) :
        k1 # k2 => assign[i][k1] # assign[i][k2]

(* mutant: the busy intervals are not added to the model *)
NotBusyDropped(perm_stages, start, assign) == TRUE

(* mutant: a busy interval of any interviewer of the request, observers   *)
(* included, keeps every stage from overlapping it                         *)
NotBusyAnyone(perm_stages, start, assign) ==
    \A i \in 1..Len(perm_stages) : \A b \in 1..Len(busy_intervals) :
        \/ EndOf(perm_stages, start, i)
              <= minutes_since_epoch(busy_intervals[b].start, epoch)
        \/ start[i] >= minutes_since_epoch(busy_intervals[b].end, epoch)

(* scheduler.py 652-682 *)
NotBusy(perm_stages, start, assign) ==
    \A i \in 1..Len(perm_stages) : \A iv \in Range(all_interviewers) :
        (HasStageVar(perm_stages, i, iv) /\ Used(assign, i, iv)) =>
            \A b \in 1..Len(busy_intervals) :
                busy_intervals[b].interviewer_id = iv =>
                    \/ EndOf(perm_stages, start, i)
                          <= minutes_since_epoch(busy_intervals[b].start, epoch)
                    \/ start[i] >= minutes_since_epoch(busy_intervals[b].end, epoch)

InfoOf(ivs, id) == ivs[CHOOSE n \in 1..Len(ivs) : ivs[n].id = id]

KnownInterviewer(ivs, id) == \E n \in 1..Len(ivs) : ivs[n].id = id

StagesUsing(perm_stages, assign, iv) ==
    Cardinality({i \in 1..Len(perm_stages) : Used(assign, i, iv)})

(* scheduler.py 684-695 *)
WeeklyLimit(perm_stages, assign) ==
    \A iv \in Range(all_interviewers) :
        (/\ KnownInterviewer(interviewers, iv)
         /\ \E i \in 1..Len(perm_stages) : HasStageVar(perm_stages, i, iv)) =>
            StagesUsing(perm_stages, assign, iv) + InfoOf(interviewers, iv).current_load
                <= request.weekly_limit

(* scheduler.py 697-711 *)
RECURSIVE AssignmentCost(_, _, _)
AssignmentCost(perm_stages, assign, ids) ==
    IF ids = <<>> THEN 0
    ELSE AssignmentCost(perm_stages, assign, Tail(ids))
         + (IF KnownInterviewer(interviewers, Head(ids))
            THEN (1 + InfoOf(interviewers, Head(ids)).last2w_load)
                 * StagesUsing(perm_stages, assign, Head(ids))
            ELSE 0)

(* mutant: the assignment cost is not weighted against the span *)
ObjectiveUnweighted(perm_stages, sol) ==
    AssignmentCost(perm_stages, sol.assign, all_interviewers)
    + (EndOf(perm_stages, sol.start, Len(perm_stages)) - sol.start[1])

(* mutant: the objective is the span alone *)
ObjectiveSpanOnly(perm_stages, sol) ==
    EndOf(perm_stages, sol.start, Len(perm_stages)) - sol.start[1]

ObjectiveValue(perm_stages, sol) ==
    FAIRNESS_FACTOR * AssignmentCost(perm_stages, sol.assign, all_interviewers)
    + (EndOf(perm_stages, sol.start, Len(perm_stages)) - sol.start[1])

AssignDomain(stage) ==
    { a \in [1..Len(stage.seats) ->
                UNION {Range(stage.seats[k].interviewers) : k \in 1..Len(stage.seats)}] :
        \A k \in 1..Len(stage.seats) : a[k] \in Range(stage.seats[k].interviewers) }

Timings(perm_stages) ==
    { st \in [1..Len(perm_stages) ->
                UNION {StartDomain(perm_stages[i]) : i \in 1..Len(perm_stages)}] :
        /\ \A i \in 1..Len(perm_stages) : st[i] \in StartDomain(perm_stages[i])
        /\ OrderedWithGaps(perm_stages, st)
        /\ InWindows(perm_stages, st)
        /\ DistinctDayRule(perm_stages, st) }

Assignments(perm_stages) ==
    { a \in [1..Len(perm_stages) ->
                UNION {AssignDomain(perm_stages[i]) : i \in 1..Len(perm_stages)}] :
        /\ \A i \in 1..Len(perm_stages) : a[i] \in AssignDomain(perm_stages[i])
        /\ AtMostOncePerStage(perm_stages, a)
        /\ WeeklyLimit(perm_stages, a) }

(* the solutions of the model *)
FeasibleSolutions(perm_stages) ==
    { sol \in [start : Timings(perm_stages), assign : Assignments(perm_stages)] :
        NotBusy(perm_stages, sol.start, sol.assign) }

OptimalSolutions(perm_stages) ==
    LET F    == FeasibleSolutions(perm_stages)
        best == SetMin({ObjectiveValue(perm_stages, other) : other \in F})
    IN  { sol \in F : ObjectiveValue(perm_stages, sol) = best }

-----------------------------------------------------------------------------
(* _extract_solution_data_perm (scheduler.py 774-821).  The                *)
(* interviewer_assignments of the solution data are dropped by             *)
(* _format_top_solutions and are not modelled.                             *)

(* event["assigned"]: the dict role -> (dict seat_id -> interviewer) of the *)
(* first n seat-roles of a stage                                           *)
RECURSIVE AssignedDict(_, _, _)
AssignedDict(stage, a, n) ==
    IF n = 0 THEN <<>>
    ELSE LET rest == AssignedDict(stage, a, n - 1)
             seat == stage.seats[n]
         IN  Put(rest, seat.role, Put(GetOr(rest, seat.role, <<>>), seat.seat_id, a[n]))

Event(stage, start_minutes, a) ==
    LET start_time == datetime_from_minutes(start_minutes, epoch)
        end_time   == start_time + stage.duration_minutes
    IN  [stage_name |-> stage.name,
         duration   |-> stage.duration_minutes,
         start      |-> to_iso(start_time),
         end        |-> to_iso(end_time),
         assigned   |-> AssignedDict(stage, a, Len(stage.seats))]

(* mutant: the events are listed in the order of the request's stages, not *)
(* in the order of the permutation                                         *)
ExtractInRequestOrder(perm_stages, sol) ==
    LET pos(name) == CHOOSE i \in 1..Len(perm_stages) : perm_stages[i].name = name
    IN  [events |-> [j \in 1..Len(stages) |->
                        Event(perm_stages[pos(stages[j].name)],
                              sol.start[pos(stages[j].name)],
                              sol.assign[pos(stages[j].name)])]]

_extract_solution_data_perm(perm_stages, sol) ==
    [events |-> [i \in 1..Len(perm_stages) |->
                    Event(perm_stages[i], sol.start[i], sol.assign[i])]]

-----------------------------------------------------------------------------
(* solve() (scheduler.py 271-313) and _format_top_solutions (871-918)      *)

(* mutant: the merged solutions are not sorted *)
Unsorted(sols) == sols

(* list.sort(key=score): stable *)
RECURSIVE SortByScore(_)
SortByScore(sols) ==
    IF sols = <<>> THEN <<>>
    ELSE LET n    == Len(sols)
             rest == SortByScore(SubSeq(sols, 1, n - 1))
             x    == sols[n]
             pos  == Cardinality({i \in 1..Len(rest) : rest[i][1] <= x[1]})
         IN  SubSeq(rest, 1, pos) \o <<x>> \o SubSeq(rest, pos + 1, Len(rest))

(* mutant: the merged solutions are not truncated *)
NotTruncated(sols, k) == sols

(* all_solutions[:top_k] *)
TopK(sols, k) == SubSeq(sols, 1, Min(k, Len(sols)))

Metrics(events) ==
    LET total_duration == SumSeq([i \in 1..Len(events) |-> events[i].duration])
        span_minutes   == IF events = <<>> THEN 0
                          ELSE parse_iso(events[Len(events)].end) - parse_iso(events[1].start)
    IN  [total_span_minutes |-> span_minutes,
         idle_time_minutes  |-> span_minutes - total_duration]

(* the dict "schedule{i}" -> schedule; the key "schedule{i}" is the number i *)
FormattedSolutions(sols) ==
    [i \in 1..Len(sols) |->
        << i, [score   |-> sols[i][1],
               events  |-> sols[i][2].events,
               metrics |-> Metrics(sols[i][2].events)] >>]

(* mutant: the merged result is labelled FEASIBLE *)
FormatAsFeasible(sols) ==
    IF sols = <<>> THEN [status |-> "INFEASIBLE", schedules |-> <<>>]
    ELSE [status |-> "FEASIBLE", schedules |-> FormattedSolutions(sols)]

_format_top_solutions(sols) ==
    IF sols = <<>> THEN [status |-> "INFEASIBLE", schedules |-> <<>>]
    ELSE [status |-> "OPTIMAL", schedules |-> FormattedSolutions(sols)]

SolveResult(sols) ==
    LET top_solutions == TopK(SortByScore(sols), request.top_k_solutions)
    IN  IF top_solutions # <<>> THEN _format_top_solutions(top_solutions)
        ELSE [status |-> "INFEASIBLE", schedules |-> <<>>]

-----------------------------------------------------------------------------
(* Phase 2: _enrich_schedule_with_shadowers (scheduler.py 421-473) and     *)
(* _find_available_interviewers (475-492)                                  *)

Overlaps(event_start, event_end, busy) ==
    ~(event_end <= busy.start \/ busy.end <= event_start)

(* mutant: the available interviewers are returned last first *)
FindAvailableReversed(ivs, event_start, event_end) ==
    LET free == SelectSeq(ivs, LAMBDA iv :
                    \A b \in 1..Len(busy_intervals) :
                        busy_intervals[b].interviewer_id = iv.id =>
                            ~Overlaps(event_start, event_end, busy_intervals[b]))
    IN  [i \in 1..Len(free) |-> free[Len(free) + 1 - i]]

_find_available_interviewers(ivs, event_start, event_end) ==
    SelectSeq(ivs, LAMBDA iv :
        \A b \in 1..Len(busy_intervals) :
            busy_intervals[b].interviewer_id = iv.id =>
                ~Overlaps(event_start, event_end, busy_intervals[b]))

(* the loop over the seats of the trained map for one role: the first      *)
(* available interviewer is assigned and removed from the pool             *)
(* mutant: the first available interviewer of the role takes over the     *)
(* trained entry of the first seat                                         *)
AssignRoleOverTrained(assigned, role, role_available, seat_ids) ==
    IF role_available # <<>> /\ seat_ids # <<>>
    THEN Put(assigned, "trained",
             Put(GetOr(assigned, "trained", <<>>), Head(seat_ids), Head(role_available)))
    ELSE assigned

RECURSIVE AssignRole(_, _, _, _)
AssignRole(assigned, role, role_available, seat_ids) ==
    IF seat_ids = <<>> THEN assigned
    ELSE IF role_available # <<>> /\ ~HasKey(GetOr(assigned, role, <<>>), Head(seat_ids))
         THEN AssignRole(Put(assigned, role,
                             Put(GetOr(assigned, role, <<>>), Head(seat_ids),
                                 Head(role_available))),
                         role, Tail(role_available), Tail(seat_ids))
         ELSE AssignRole(assigned, role, role_available, Tail(seat_ids))

EnrichEvent(event) ==
    LET shadowers  == SelectSeq(interviewers,
                                LAMBDA iv : iv.mode \in {"shadow", "reverse_shadow"})
        available  == _find_available_interviewers(shadowers, parse_iso(event.start),
                                                   parse_iso(event.end))
        pool(role) == RoleInterviewers(available, role)
        seat_ids(a) == Keys(GetOr(a, "trained", <<>>))
        withShadow == AssignRole(event.assigned, "shadow", pool("shadow"),
                                 seat_ids(event.assigned))
        withBoth   == AssignRole(withShadow, "reverse_shadow", pool("reverse_shadow"),
                                 seat_ids(withShadow))
    IN  [event EXCEPT !.assigned = withBoth]

_enrich_schedule_with_shadowers(initial_schedule) ==
    [initial_schedule EXCEPT
        !.events = [e \in 1..Len(initial_schedule.events) |->
                       EnrichEvent(initial_schedule.events[e])]]

(* scheduler.py 378-408 *)
TwoPhaseResult(p1) ==
    IF p1.status \notin {"OPTIMAL", "FEASIBLE"} THEN [status |-> "INFEASIBLE", schedules |-> <<>>]
    ELSE IF p1.schedules = <<>> THEN [status |-> "INFEASIBLE", schedules |-> <<>>]
    ELSE [status |-> p1.status,
          schedules |-> [i \in 1..Len(p1.schedules) |->
                            << p1.schedules[i][1],
                               _enrich_schedule_with_shadowers(p1.schedules[i][2]) >>]]

-----------------------------------------------------------------------------
(* The steps of solve_with_two_phase_approach                              *)

(* scheduler.py 324-368, and solve() up to the first permutation's solve *)
BeginPhase1 ==
    /\ pc = "constructed"
    /\ LET temp_stages == [s \in 1..Len(stages) |-> TempStage(stages[s])]
           filtered    == SelectSeq(interviewers, LAMBDA iv : iv.mode = "trained")
       IN  /\ original' = [stages |-> stages, interviewers |-> interviewers,
                           all_interviewers |-> all_interviewers]
           /\ stages' = temp_stages
           /\ interviewers' = filtered
           /\ all_interviewers' = sorted({filtered[i].id : i \in 1..Len(filtered)})
           /\ stage_permutations' = generate_stage_permutations(temp_stages)
    /\ perm_idx' = 1
    /\ remaining_solutions' = request.top_k_solutions
    /\ all_solutions' = <<>>
    /\ solutions' = <<>>
    /\ last_objective' = -1
    /\ pc' = "solving"
    /\ UNCHANGED <<request, error, availability, busy_intervals, epoch, phase1_result, result>>

(* mutant: the callback appends every reported solution, quota or not *)
CallbackWithoutQuota ==
    /\ pc = "solving"
    /\ \E sol \in FeasibleSolutions(stage_permutations[perm_idx]) :
         LET score == ObjectiveValue(stage_permutations[perm_idx], sol)
         IN  /\ last_objective = -1 \/ score < last_objective
             /\ last_objective' = score
             /\ solutions' =
                  Append(solutions,
                         <<score, _extract_solution_data_perm(stage_permutations[perm_idx], sol)>>)
    /\ UNCHANGED <<request, pc, error, stages, interviewers, all_interviewers, availability,
                   busy_intervals, epoch, original, stage_permutations, perm_idx,
                   remaining_solutions, all_solutions, phase1_result, result>>

(* mutant: the solver reports feasible solutions in any order of objective *)
CallbackAnyOrder ==
    /\ pc = "solving"
    /\ \E sol \in FeasibleSolutions(stage_permutations[perm_idx]) :
         LET score == ObjectiveValue(stage_permutations[perm_idx], sol)
         IN  /\ last_objective' = score
             /\ Len(solutions) < remaining_solutions
             /\ solutions' =
                  Append(solutions,
                         <<score, _extract_solution_data_perm(stage_permutations[perm_idx], sol)>>)
    /\ UNCHANGED <<request, pc, error, stages, interviewers, all_interviewers, availability,
                   busy_intervals, epoch, original, stage_permutations, perm_idx,
                   remaining_solutions, all_solutions, phase1_result, result>>

(* SolutionCollector.on_solution_callback (scheduler.py 738-744): the      *)
(* solver, minimising, reports a solution better than the last it reported *)
OnSolutionCallback ==
    /\ pc = "solving"
    /\ \E sol \in FeasibleSolutions(stage_permutations[perm_idx]) :
         LET score == ObjectiveValue(stage_permutations[perm_idx], sol)
         IN  /\ last_objective = -1 \/ score < last_objective
             /\ last_objective' = score
             /\ solutions' =
                  IF Len(solutions) < remaining_solutions
                  THEN Append(solutions,
                         <<score, _extract_solution_data_perm(stage_permutations[perm_idx], sol)>>)
                  ELSE solutions
    /\ UNCHANGED <<request, pc, error, stages, interviewers, all_interviewers, availability,
                   busy_intervals, epoch, original, stage_permutations, perm_idx,
                   remaining_solutions, all_solutions, phase1_result, result>>

(* mutant: every permutation is given the full top_k_solutions as quota *)
NextPermutationFullQuota(perm_solutions) ==
    /\ all_solutions' = all_solutions \o perm_solutions
    /\ remaining_solutions' = request.top_k_solutions
    /\ solutions' = <<>>
    /\ last_objective' = -1
    /\ IF perm_idx < Len(stage_permutations)
       THEN perm_idx' = perm_idx + 1 /\ pc' = "solving"
       ELSE perm_idx' = perm_idx /\ pc' = "merge"
    /\ UNCHANGED <<request, error, stages, interviewers, all_interviewers, availability,
                   busy_intervals, epoch, original, stage_permutations, phase1_result, result>>

(* solve() 296-299: the permutation's solutions join all_solutions and the *)
(* next permutation's solve begins                                         *)
NextPermutation(perm_solutions) ==
    /\ all_solutions' = all_solutions \o perm_solutions
    /\ remaining_solutions' = Max(0, request.top_k_solutions - Len(all_solutions'))
    /\ solutions' = <<>>
    /\ last_objective' = -1
    /\ IF perm_idx < Len(stage_permutations)
       THEN perm_idx' = perm_idx + 1 /\ pc' = "solving"
       ELSE perm_idx' = perm_idx /\ pc' = "merge"
    /\ UNCHANGED <<request, error, stages, interviewers, all_interviewers, availability,
                   busy_intervals, epoch, original, stage_permutations, phase1_result, result>>

(* solver.Solve returns (the search is over or its time budget expired)    *)
(* with solutions in the collector (scheduler.py 750-758)                  *)
SolveReturnsCollected ==
    /\ pc = "solving"
    /\ solutions # <<>>
    /\ NextPermutation(solutions)

(* mutant: an empty collector ends the permutation without a second solve *)
SolveReturnsEmptyNoFallback ==
    /\ pc = "solving"
    /\ solutions = <<>>
    /\ NextPermutation(<<>>)

(* solver.Solve returns with an empty collector: the single-shot solve     *)
(* (scheduler.py 759-769), which runs without a time limit                 *)
SolveReturnsEmpty ==
    /\ pc = "solving"
    /\ solutions = <<>>
    /\ LET perm_stages == stage_permutations[perm_idx]
       IN  IF FeasibleSolutions(perm_stages) = {}
           THEN NextPermutation(<<>>)
           ELSE \E sol \in OptimalSolutions(perm_stages) :
                   NextPermutation(<< <<ObjectiveValue(perm_stages, sol),
                                        _extract_solution_data_perm(perm_stages, sol)>> >>)

(* solve() 304-313, and the restore of scheduler.py 373-376 *)
FinishPhase1 ==
    /\ pc = "merge"
    /\ phase1_result' = SolveResult(all_solutions)
    /\ stages' = original.stages
    /\ interviewers' = original.interviewers
    /\ all_interviewers' = original.all_interviewers
    /\ pc' = "phase2"
    /\ UNCHANGED <<request, error, availability, busy_intervals, epoch, original,
                   stage_permutations, perm_idx, remaining_solutions, all_solutions,
                   solutions, last_objective, result>>

(* scheduler.py 378-408 *)
Phase2 ==
    /\ pc = "phase2"
    /\ result' = TwoPhaseResult(phase1_result)
    /\ pc' = "done"
    /\ UNCHANGED <<request, error, stages, interviewers, all_interviewers, availability,
                   busy_intervals, epoch, original, stage_permutations, perm_idx,
                   remaining_solutions, all_solutions, solutions, last_objective,
                   phase1_result>>

Next ==
    \/ Construct
    \/ BeginPhase1
    \/ OnSolutionCallback
    \/ SolveReturnsCollected
    \/ SolveReturnsEmpty
    \/ FinishPhase1
    \/ Phase2

Spec == Init /\ [][Next]_vars

-----------------------------------------------------------------------------
(* generate_stage_permutations on its own: solve() 279-281 over stage      *)
(* lists of every length up to MaxStages and every choice of fixed stages  *)

MaxStages == 4

StageNames == <<"S1", "S2", "S3", "S4", "S5", "S6">>

PermStagesData ==
    UNION { { [i \in 1..n |-> StageData(StageNames[i], 360, 1, f[i])] :
                f \in [1..n -> BOOLEAN] } : n \in 1..MaxStages }

PermRequests ==
    { Request(st, BaseInterviewers, BaseAvailability, <<>>, 360, 2, FALSE, 1, TRUE, 0) :
        st \in PermStagesData }

PermInit ==
    /\ request \in PermRequests
    /\ pc = "new"
    /\ error = "none"
    /\ stages = <<>>
    /\ interviewers = <<>>
    /\ all_interviewers = <<>>
    /\ availability = <<>>
    /\ busy_intervals = <<>>
    /\ epoch = 0
    /\ original = NoOriginal
    /\ stage_permutations = <<>>
    /\ perm_idx = 0
    /\ remaining_solutions = 0
    /\ all_solutions = <<>>
    /\ solutions = <<>>
    /\ last_objective = -1
    /\ phase1_result = NoResult
    /\ result = NoResult

(* solve() 279-288: the permutations are generated and the loop is entered *)
GeneratePermutations ==
    /\ pc = "constructed"
    /\ stage_permutations' = generate_stage_permutations(stages)
    /\ perm_idx' = 1
    /\ remaining_solutions' = request.top_k_solutions
    /\ pc' = "permuted"
    /\ UNCHANGED <<request, error, stages, interviewers, all_interviewers, availability,
                   busy_intervals, epoch, original, all_solutions, solutions,
                   last_objective, phase1_result, result>>

(* solve() 291: the loop moves on to the next permutation *)
EnumeratePermutation ==
    /\ pc = "permuted"
    /\ perm_idx < Len(stage_permutations)
    /\ perm_idx' = perm_idx + 1
    /\ UNCHANGED <<request, pc, error, stages, interviewers, all_interviewers, availability,
                   busy_intervals, epoch, original, stage_permutations,
                   remaining_solutions, all_solutions, solutions, last_objective,
                   phase1_result, result>>

PermNext ==
    \/ Construct
    \/ GeneratePermutations
    \/ EnumeratePermutation

PermSpec == PermInit /\ [][PermNext]_vars

-----------------------------------------------------------------------------
(* Scenario S1: two non-fixed stages of 30 and 45 minutes with one seat    *)
(* each, one window 09:00-17:00 of day 0, two interviewers of each mode,   *)
(* no busy intervals, same-day scheduling, time step 15, the defaults for  *)
(* the rest (weekly_limit 5, top_k_solutions 50, min_gap_between_stages 0) *)

S1Request ==
    Request(<< StageData("S1", 30, 1, FALSE), StageData("S2", 45, 1, FALSE) >>,
            << InterviewerData("t1", 0, 0, "trained"),
               InterviewerData("t2", 0, 0, "trained"),
               InterviewerData("s1", 0, 0, "shadow"),
               InterviewerData("s2", 0, 0, "shadow"),
               InterviewerData("r1", 0, 0, "reverse_shadow"),
               InterviewerData("r2", 0, 0, "reverse_shadow") >>,
            << WindowData(540, 1020) >>, <<>>, 15, 5, FALSE, 50, TRUE, 0)

S1Init ==
    /\ request = S1Request
    /\ pc = "new"
    /\ error = "none"
    /\ stages = <<>>
    /\ interviewers = <<>>
    /\ all_interviewers = <<>>
    /\ availability = <<>>
    /\ busy_intervals = <<>>
    /\ epoch = 0
    /\ original = NoOriginal
    /\ stage_permutations = <<>>
    /\ perm_idx = 0
    /\ remaining_solutions = 0
    /\ all_solutions = <<>>
    /\ solutions = <<>>
    /\ last_objective = -1
    /\ phase1_result = NoResult
    /\ result = NoResult

(* the runs in which every Solve ends on the single-shot path of            *)
(* scheduler.py 759-769, which has no time limit and so returns a solution  *)
(* of minimal objective                                                    *)
S1Next ==
    \/ Construct
    \/ BeginPhase1
    \/ SolveReturnsEmpty
    \/ FinishPhase1
    \/ Phase2

S1Spec == S1Init /\ [][S1Next]_vars

-----------------------------------------------------------------------------
(* What the claims speak about                                             *)

(* the schedules solve() returned (Phase 1) and those of the final result *)
Phase1Schedules == Values(phase1_result.schedules)

FinalSchedules == Values(result.schedules)

ReturnedSchedules == Range(Phase1Schedules) \cup Range(FinalSchedules)

EventStart(ev) == parse_iso(ev.start)

EventEnd(ev) == parse_iso(ev.end)

RequestWindows ==
    [j \in 1..Len(request.availability_windows) |->
        [start |-> parse_iso(request.availability_windows[j].start),
         end   |-> parse_iso(request.availability_windows[j].end)]]

RequestBusy ==
    [j \in 1..Len(request.busy_intervals) |->
        [interviewer_id |-> request.busy_intervals[j].interviewer_id,
         start |-> parse_iso(request.busy_intervals[j].start),
         end   |-> parse_iso(request.busy_intervals[j].end)]]

RequestEpoch == SetMin({RequestWindows[j].start : j \in 1..Len(RequestWindows)})

WindowsHolding(ev) ==
    {j \in 1..Len(RequestWindows) :
        RequestWindows[j].start <= EventStart(ev) /\ EventEnd(ev) <= RequestWindows[j].end}

RequestStage(name) ==
    request.stages[CHOOSE i \in 1..Len(request.stages) : request.stages[i].stage_name = name]

RoleMap(ev, role) == GetOr(ev.assigned, role, <<>>)

(* every interviewer of the event, over the three role maps, seat by seat *)
Assignees(ev) ==
    Values(RoleMap(ev, "trained")) \o Values(RoleMap(ev, "shadow"))
        \o Values(RoleMap(ev, "reverse_shadow"))

ModeOf(id) ==
    request.interviewers[CHOOSE n \in 1..Len(request.interviewers) :
                            request.interviewers[n].id = id].mode

DaysTouched(ev) == date(EventStart(ev))..date(EventEnd(ev))

DistinctDaysActive == request.require_distinct_days \/ ~request.schedule_on_same_day

-----------------------------------------------------------------------------
(* C1: in every returned schedule consecutive events are at least G apart, *)
(* events[i+1].start >= events[i].end + G with G = max(120, min_gap) on    *)
(* same-day scheduling and max(1440, min_gap) otherwise; so the events are *)
(* strictly increasing by start and never overlap.                         *)
C1_MinimumGap ==
    \A sch \in ReturnedSchedules : \A i \in 1..(Len(sch.events) - 1) :
        LET G == IF request.schedule_on_same_day
                 THEN Max(120, request.min_gap_between_stages)
                 ELSE Max(1440, request.min_gap_between_stages)
        IN  /\ EventStart(sch.events[i + 1]) >= EventEnd(sch.events[i]) + G
            /\ EventStart(sch.events[i + 1]) > EventStart(sch.events[i])
            /\ EventStart(sch.events[i + 1]) >= EventEnd(sch.events[i])

(* a final schedule of two events under a custom gap above the default, and *)
(* the gap is met exactly                                                  *)
C1_Witness ==
    /\ pc = "done"
    /\ request.min_gap_between_stages > 120
    /\ request.schedule_on_same_day
    /\ \E sch \in Range(FinalSchedules) :
          /\ Len(sch.events) = 2
          /\ EventStart(sch.events[2]) = EventEnd(sch.events[1]) + request.min_gap_between_stages

(* C2 as stated: every event lies within exactly one availability window. *)
C2_ExactlyOneWindow ==
    \A sch \in ReturnedSchedules : \A i \in 1..Len(sch.events) :
        Cardinality(WindowsHolding(sch.events[i])) = 1

(* C2, amended: every event of every returned schedule lies entirely       *)
(* within at least one availability window (within several when windows    *)
(* overlap).                                                               *)
C2_WithinSomeWindow ==
    \A sch \in ReturnedSchedules : \A i \in 1..Len(sch.events) :
        WindowsHolding(sch.events[i]) # {}

(* overlapping windows, and an event that two of them hold *)
C2_Witness ==
    /\ pc = "done"
    /\ \E sch \in Range(FinalSchedules) : \E i \in 1..Len(sch.events) :
          Cardinality(WindowsHolding(sch.events[i])) >= 2

(* C3: no event of the final result overlaps a busy interval of any of its *)
(* interviewers, whatever their role.                                      *)
C3_BusyDisjoint ==
    \A sch \in Range(FinalSchedules) : \A i \in 1..Len(sch.events) :
        \A iv \in Range(Assignees(sch.events[i])) : \A b \in 1..Len(RequestBusy) :
            RequestBusy[b].interviewer_id = iv =>
                \/ EventEnd(sch.events[i]) <= RequestBusy[b].start
                \/ RequestBusy[b].end <= EventStart(sch.events[i])

(* a schedule in which a trained interviewer and a shadow with busy        *)
(* intervals are both assigned, each to an event clear of them             *)
C3_Witness ==
    /\ pc = "done"
    /\ \E sch \in Range(FinalSchedules) : \E i, j \in 1..Len(sch.events) :
          /\ \E iv \in Range(Values(RoleMap(sch.events[i], "trained"))) :
                \E b \in 1..Len(RequestBusy) : RequestBusy[b].interviewer_id = iv
          /\ \E iv \in Range(Values(RoleMap(sch.events[j], "shadow"))) :
                \E b \in 1..Len(RequestBusy) : RequestBusy[b].interviewer_id = iv

EventsWith(sch, id) ==
    Cardinality({i \in 1..Len(sch.events) : id \in Range(Assignees(sch.events[i]))})

(* C4 as stated: in every final schedule every interviewer of the request, *)
(* whatever the mode, appears in at most weekly_limit - current_load events. *)
C4_WeeklyCapAllModes ==
    \A sch \in Range(FinalSchedules) : \A n \in 1..Len(request.interviewers) :
        EventsWith(sch, request.interviewers[n].id) + request.interviewers[n].current_load
            <= request.weekly_limit

(* C5: no interviewer appears twice in an event, over the three role maps. *)
C5_NoDoubleBooking ==
    \A sch \in ReturnedSchedules : \A i \in 1..Len(sch.events) :
        LET who == Assignees(sch.events[i])
        IN  \A m, n \in 1..Len(who) : m # n => who[m] # who[n]

(* an event of two seats, each with a trained, a shadow and a              *)
(* reverse-shadow or shadow interviewer                                    *)
C5_Witness ==
    /\ pc = "done"
    /\ \E sch \in Range(FinalSchedules) : \E i \in 1..Len(sch.events) :
          /\ Len(RoleMap(sch.events[i], "trained")) = 2
          /\ Len(RoleMap(sch.events[i], "shadow")) = 2
          /\ Len(RoleMap(sch.events[i], "reverse_shadow")) >= 1

(* C6: the trained map of every event has exactly the seat_ids of its      *)
(* stage as keys, each once, each mapped to a trained-mode interviewer.    *)
C6_OneTrainedPerSeat ==
    \A sch \in ReturnedSchedules : \A i \in 1..Len(sch.events) :
        LET trained == RoleMap(sch.events[i], "trained")
            seats   == RequestStage(sch.events[i].stage_name).seats
        IN  /\ Range(Keys(trained)) = {seats[k].seat_id : k \in 1..Len(seats)}
            /\ Len(trained) = Len(seats)
            /\ \A k \in 1..Len(trained) : ModeOf(trained[k][2]) = "trained"

C6_Witness ==
    /\ pc = "done"
    /\ \E sch \in Range(FinalSchedules) : \E i \in 1..Len(sch.events) :
          /\ Len(RequestStage(sch.events[i].stage_name).seats) = 2
          /\ Len(RoleMap(sch.events[i], "trained")) = 2

(* C7 as stated: under the distinct-day rule no calendar date is touched   *)
(* by the [start, end] intervals of two events of a schedule.              *)
C7_NoSharedDay ==
    DistinctDaysActive =>
        \A sch \in ReturnedSchedules : \A i, j \in 1..Len(sch.events) :
            i # j => DaysTouched(sch.events[i]) \cap DaysTouched(sch.events[j]) = {}

(* C7, amended: under the distinct-day rule no two events of a schedule    *)
(* start on the same calendar day (their starts are at least 1440 minutes  *)
(* apart); and when schedule_on_same_day is false no calendar date is      *)
(* touched by two events.                                                  *)
C7_DistinctStartDays ==
    DistinctDaysActive =>
        \A sch \in ReturnedSchedules : \A i, j \in 1..Len(sch.events) :
            i < j =>
               /\ date(EventStart(sch.events[i])) # date(EventStart(sch.events[j]))
               /\ EventStart(sch.events[j]) >= EventStart(sch.events[i]) + 1440
               /\ ~request.schedule_on_same_day =>
                     DaysTouched(sch.events[i]) \cap DaysTouched(sch.events[j]) = {}

(* require_distinct_days with same-day gaps, and two events that do not    *)
(* start on the same day although the first runs into the day of the second *)
C7_Witness ==
    /\ pc = "done"
    /\ request.require_distinct_days
    /\ request.schedule_on_same_day
    /\ \E sch \in Range(FinalSchedules) :
          /\ Len(sch.events) = 2
          /\ date(EventEnd(sch.events[1])) = date(EventStart(sch.events[2]))

(* C8: every event starts a non-negative multiple of time_step_minutes     *)
(* after the epoch (the earliest window start) and ends its stage's        *)
(* duration later.                                                         *)
C8_GridAligned ==
    \A sch \in ReturnedSchedules : \A i \in 1..Len(sch.events) :
        LET offset == EventStart(sch.events[i]) - RequestEpoch
        IN  /\ offset >= 0
            /\ offset % request.time_step_minutes = 0
            /\ EventEnd(sch.events[i]) =
                  EventStart(sch.events[i]) + RequestStage(sch.events[i].stage_name).duration

(* an event that starts a positive number of steps after an epoch that is  *)
(* not the first window of the request                                     *)
C8_Witness ==
    /\ pc = "done"
    /\ RequestEpoch # RequestWindows[1].start
    /\ \E sch \in Range(FinalSchedules) : \E i \in 1..Len(sch.events) :
          EventStart(sch.events[i]) - RequestEpoch >= 2 * request.time_step_minutes

(* C9: schedule{i}.score <= schedule{i+1}.score, after the merge and after *)
(* the enrichment.                                                         *)
C9_ScoresAscending ==
    /\ \A i \in 1..(Len(phase1_result.schedules) - 1) :
          /\ HasKey(phase1_result.schedules, i) /\ HasKey(phase1_result.schedules, i + 1)
          /\ Get(phase1_result.schedules, i).score <= Get(phase1_result.schedules, i + 1).score
    /\ \A i \in 1..(Len(result.schedules) - 1) :
          /\ HasKey(result.schedules, i) /\ HasKey(result.schedules, i + 1)
          /\ Get(result.schedules, i).score <= Get(result.schedules, i + 1).score

(* two schedules of different scores, collected in descending order *)
C9_Witness ==
    /\ pc = "done"
    /\ Len(result.schedules) = 2
    /\ Get(result.schedules, 1).score < Get(result.schedules, 2).score
    /\ Len(all_solutions) >= 2
    /\ all_solutions[1][1] > all_solutions[2][1]

(* C10: the response holds at most top_k_solutions schedules, keyed         *)
(* schedule1 .. scheduleN without gaps.                                    *)
C10_AtMostTopK ==
    /\ Len(phase1_result.schedules) <= request.top_k_solutions
    /\ Len(result.schedules) <= request.top_k_solutions
    /\ Keys(phase1_result.schedules) = [i \in 1..Len(phase1_result.schedules) |-> i]
    /\ Keys(result.schedules) = [i \in 1..Len(result.schedules) |-> i]

(* the permutations contributed more solutions than were asked for *)
C10_Witness ==
    /\ pc = "done"
    /\ Len(all_solutions) > request.top_k_solutions
    /\ Len(result.schedules) = request.top_k_solutions
    /\ request.top_k_solutions >= 1

-----------------------------------------------------------------------------
(* the stages of the list whose is_fixed is set, by position *)
FixedPositions(stgs) == {i \in 1..Len(stgs) : stgs[i].is_fixed}

(* the arrangements of a stage list that keep every fixed stage in place *)
Arrangements(stgs) ==
    LET n == Len(stgs)
    IN  { [i \in 1..n |-> stgs[q[i]]] :
            q \in { r \in [1..n -> 1..n] :
                      /\ \A i, j \in 1..n : r[i] = r[j] => i = j
                      /\ \A i \in FixedPositions(stgs) : r[i] = i } }

RECURSIVE Factorial(_)
Factorial(n) == IF n <= 0 THEN 1 ELSE n * Factorial(n - 1)

(* C11: generate_stage_permutations returns exactly the arrangements of    *)
(* the stages that keep every is_fixed stage at its original index, each   *)
(* once: (n - f)! of them, the original ordering alone when every stage is *)
(* fixed and all n! permutations when none is.                             *)
C11_FixedStagesStay ==
    pc = "permuted" =>
        LET n == Len(stages)
            f == Cardinality(FixedPositions(stages))
            m == Len(stage_permutations)
        IN  /\ Range(stage_permutations) = Arrangements(stages)
            /\ \A a, b \in 1..m : stage_permutations[a] = stage_permutations[b] => a = b
            /\ m = Factorial(n - f)
            /\ f = n => stage_permutations = <<stages>>
            /\ f = 0 => m = Factorial(n)

(* a list with a fixed stage between non-fixed ones, and the loop has gone *)
(* through its several arrangements                                        *)
C11_Witness ==
    /\ pc = "permuted"
    /\ Len(stages) >= 3
    /\ ~stages[1].is_fixed /\ stages[2].is_fixed /\ ~stages[3].is_fixed
    /\ Len(stage_permutations) >= 2
    /\ perm_idx = Len(stage_permutations)
    /\ stage_permutations[perm_idx] # stages

StageNamesOf(stgs) == [i \in 1..Len(stgs) |-> stgs[i].name]

EventNames(events) == [i \in 1..Len(events) |-> events[i].stage_name]

RequestStageNames == [i \in 1..Len(request.stages) |-> request.stages[i].stage_name]

(* C12: the events of every returned schedule are the stages of the        *)
(* request, each once, in the order of the permutation that produced the   *)
(* schedule, the fixed stages at their original index; the enrichment      *)
(* keeps the order of the events.                                          *)
C12_EventsFollowPermutation ==
    /\ \A n \in 1..Len(solutions) :
          EventNames(solutions[n][2].events) = StageNamesOf(stage_permutations[perm_idx])
    /\ \A n \in 1..Len(all_solutions) : \E p \in 1..Len(stage_permutations) :
          EventNames(all_solutions[n][2].events) = StageNamesOf(stage_permutations[p])
    /\ \A sch \in ReturnedSchedules :
          /\ Len(sch.events) = Len(request.stages)
          /\ \A j \in 1..Len(request.stages) :
                Cardinality({i \in 1..Len(sch.events) :
                    sch.events[i].stage_name = request.stages[j].stage_name}) = 1
          /\ \A j \in 1..Len(request.stages) :
                request.stages[j].is_fixed =>
                    sch.events[j].stage_name = request.stages[j].stage_name
          /\ \E p \in 1..Len(stage_permutations) :
                EventNames(sch.events) = StageNamesOf(stage_permutations[p])
    /\ pc = "done" =>
          /\ Keys(result.schedules) = Keys(phase1_result.schedules)
          /\ \A i \in 1..Len(result.schedules) :
                EventNames(result.schedules[i][2].events)
                    = EventNames(phase1_result.schedules[i][2].events)

(* a final schedule that came from the permutation that swaps the two      *)
(* stages of the request                                                   *)
C12_Witness ==
    /\ pc = "done"
    /\ Len(request.stages) = 2
    /\ \E sch \in Range(FinalSchedules) :
          EventNames(sch.events) = <<RequestStageNames[2], RequestStageNames[1]>>

-----------------------------------------------------------------------------
(* the trained-only model of some permutation has a solution *)
SolutionExists ==
    \E p \in 1..Len(stage_permutations) : FeasibleSolutions(stage_permutations[p]) # {}

InfeasibleResponse == [status |-> "INFEASIBLE", schedules |-> <<>>]

(* C13 as stated: the status is OPTIMAL if a solution exists for any       *)
(* permutation and the response is {INFEASIBLE, {}} otherwise; OPTIMAL iff *)
(* the schedules are non-empty; the two-phase result carries the Phase-1   *)
(* status.                                                                 *)
C13_OptimalIfAnySolution ==
    /\ pc \in {"phase2", "done"} =>
          /\ SolutionExists => phase1_result.status = "OPTIMAL"
          /\ ~SolutionExists => phase1_result = InfeasibleResponse
          /\ phase1_result.status = "OPTIMAL" <=> phase1_result.schedules # <<>>
    /\ pc = "done" =>
          /\ SolutionExists => result.status = "OPTIMAL"
          /\ ~SolutionExists => result = InfeasibleResponse
          /\ result.status = "OPTIMAL" <=> result.schedules # <<>>
          /\ result.status = phase1_result.status

(* C13, amended: when at least one schedule is asked for                   *)
(* (top_k_solutions >= 1) the status is OPTIMAL if a solution exists for   *)
(* any permutation; when none exists, or top_k_solutions is 0, the         *)
(* response is exactly {INFEASIBLE, {}}; OPTIMAL iff the schedules are     *)
(* non-empty; the two-phase result carries the Phase-1 status.             *)
C13_OptimalIfAnySolutionAsked ==
    LET some == SolutionExists /\ request.top_k_solutions >= 1
    IN  /\ pc \in {"phase2", "done"} =>
              /\ some => phase1_result.status = "OPTIMAL"
              /\ ~some => phase1_result = InfeasibleResponse
              /\ phase1_result.status = "OPTIMAL" <=> phase1_result.schedules # <<>>
        /\ pc = "done" =>
              /\ some => result.status = "OPTIMAL"
              /\ ~some => result = InfeasibleResponse
              /\ result.status = "OPTIMAL" <=> result.schedules # <<>>
              /\ result.status = phase1_result.status

(* one permutation of the stages has no solution, the other has, and the   *)
(* result is OPTIMAL                                                       *)
C13_Witness ==
    /\ pc = "done"
    /\ request.top_k_solutions >= 1
    /\ \E p \in 1..Len(stage_permutations) : FeasibleSolutions(stage_permutations[p]) = {}
    /\ SolutionExists
    /\ result.status = "OPTIMAL"
    /\ result.schedules # <<>>

(* the permutation a collected solution came from *)
PermutationOf(events) ==
    stage_permutations[CHOOSE p \in 1..Len(stage_permutations) :
                          StageNamesOf(stage_permutations[p]) = EventNames(events)]

(* what the solver could have reported in place of the n-th collected      *)
(* solution: the solutions of the same permutation with the same score     *)
SameScoreReports(n) ==
    LET perm_stages == PermutationOf(all_solutions[n][2].events)
    IN  { <<all_solutions[n][1], _extract_solution_data_perm(perm_stages, sol)>> :
            sol \in { x \in FeasibleSolutions(perm_stages) :
                        ObjectiveValue(perm_stages, x) = all_solutions[n][1] } }

(* C14 as stated: a run that differs from this one only in which of the    *)
(* equal-score solutions the solver reported gives the same output.        *)
C14_SameOutputEveryRun ==
    pc = "done" =>
        \A n \in 1..Len(all_solutions) : \A alt \in SameScoreReports(n) :
            TwoPhaseResult(SolveResult([all_solutions EXCEPT ![n] = alt])) = result

(* C15: for each schedule key the enriched schedule has the score, the     *)
(* metrics, the events' stage names, durations, starts and ends and the    *)
(* trained seat-to-interviewer map of the Phase-1 schedule; only shadow    *)
(* and reverse_shadow entries are added.                                   *)
C15_EnrichmentOnlyAdds ==
    pc = "done" =>
        /\ Keys(result.schedules) = Keys(phase1_result.schedules)
        /\ \A i \in 1..Len(result.schedules) :
              LET before == phase1_result.schedules[i][2]
                  after  == result.schedules[i][2]
              IN  /\ after.score = before.score
                  /\ after.metrics = before.metrics
                  /\ Len(after.events) = Len(before.events)
                  /\ \A e \in 1..Len(before.events) :
                        LET x == before.events[e]
                            y == after.events[e]
                        IN  /\ y.stage_name = x.stage_name
                            /\ y.duration = x.duration
                            /\ y.start = x.start
                            /\ y.end = x.end
                            /\ RoleMap(y, "trained") = RoleMap(x, "trained")
                            /\ Keys(x.assigned) = <<"trained">>
                            /\ Range(Keys(y.assigned))
                                  \subseteq {"trained", "shadow", "reverse_shadow"}
                            /\ \A role \in {"shadow", "reverse_shadow"} :
                                  \A id \in Range(Values(RoleMap(y, role))) :
                                      ModeOf(id) = role

(* a schedule to which the enrichment added a shadow and a reverse_shadow *)
C15_Witness ==
    /\ pc = "done"
    /\ \E i \in 1..Len(result.schedules) : \E e \in 1..Len(result.schedules[i][2].events) :
          /\ RoleMap(result.schedules[i][2].events[e], "shadow") # <<>>
          /\ RoleMap(result.schedules[i][2].events[e], "reverse_shadow") # <<>>
          /\ RoleMap(phase1_result.schedules[i][2].events[e], "shadow") = <<>>
          /\ RoleMap(result.schedules[i][2].events[e], "trained")
                = RoleMap(phase1_result.schedules[i][2].events[e], "trained")

-----------------------------------------------------------------------------
(* what a request lacks, read off the request itself *)
RequestHasMode(mode) ==
    \E n \in 1..Len(request.interviewers) : request.interviewers[n].mode = mode

WindowsOrStagesInvalid ==
    \/ request.availability_windows = <<>>
    \/ request.stages = <<>>
    \/ \E i \in 1..Len(request.stages) : request.stages[i].duration <= 0
    \/ \E i \in 1..Len(request.stages) : request.stages[i].seats = <<>>
    \/ \E j \in 1..Len(RequestWindows) : RequestWindows[j].start >= RequestWindows[j].end

(* nothing of a solve exists: no permutations, no collected solution, no result *)
NothingSolved ==
    /\ stage_permutations = <<>>
    /\ all_solutions = <<>>
    /\ solutions = <<>>
    /\ phase1_result = NoResult
    /\ result = NoResult

(* C16: construction fails with an error, before any model is built or any *)
(* solver is run, when the request has no availability windows, no stages, *)
(* a stage of duration <= 0, a stage without seats, a window with          *)
(* start >= end or no interviewer of mode trained; and no validation error *)
(* is raised once solving has started.                                     *)
C16_InvalidRejectedBeforeSolving ==
    /\ (WindowsOrStagesInvalid \/ ~RequestHasMode("trained")) =>
          /\ pc \in {"new", "error"}
          /\ pc = "error" => error # "none"
    /\ pc = "error" => error # "none" /\ NothingSolved
    /\ pc \notin {"new", "error"} => error = "none"

(* a request whose stages and windows are in order and that has shadow and *)
(* reverse_shadow interviewers but no trained one, rejected                *)
C16_Witness ==
    /\ pc = "error"
    /\ ~WindowsOrStagesInvalid
    /\ ~RequestHasMode("trained")
    /\ RequestHasMode("shadow") /\ RequestHasMode("reverse_shadow")
    /\ error = "empty_pool"
    /\ NothingSolved

(* the calendar days that meet a window of the request, both ends included *)
DaysCovered ==
    LET last == SetMax({0} \cup {date(RequestWindows[j].end) : j \in 1..Len(RequestWindows)})
    IN  { d \in 0..last : \E j \in 1..Len(RequestWindows) :
            /\ RequestWindows[j].start < (d + 1) * MINUTES_PER_DAY
            /\ RequestWindows[j].end >= d * MINUTES_PER_DAY }

(* C17: with schedule_on_same_day false construction fails with the        *)
(* insufficient-days error, before solving, if and only if the windows     *)
(* cover fewer calendar days than there are stages (for a request that     *)
(* passes the checks made before it); with schedule_on_same_day true the   *)
(* check rejects nothing.                                                  *)
C17_InsufficientDays ==
    pc # "new" =>
        LET few    == Cardinality(DaysCovered) < Len(request.stages)
            passes == /\ ~WindowsOrStagesInvalid
                      /\ \A r \in 1..Len(ROLES) : RequestHasMode(ROLES[r])
        IN  /\ (~request.schedule_on_same_day /\ passes) =>
                  (error = "insufficient_days" <=> few)
            /\ (~request.schedule_on_same_day /\ few) => pc = "error" /\ NothingSolved
            /\ error = "insufficient_days" =>
                  /\ pc = "error"
                  /\ ~request.schedule_on_same_day
                  /\ few
                  /\ NothingSolved
            /\ request.schedule_on_same_day => error # "insufficient_days"

(* two stages and one window inside a single day, rejected for its days *)
C17_Witness ==
    /\ pc = "error"
    /\ error = "insufficient_days"
    /\ Len(request.stages) = 2
    /\ Len(request.availability_windows) = 1
    /\ Cardinality(DaysCovered) = 1
    /\ ~request.schedule_on_same_day

TrainedOnly ==
    /\ request.interviewers # <<>>
    /\ \A n \in 1..Len(request.interviewers) : request.interviewers[n].mode = "trained"

(* C18 as stated: a request of one stage with trained interviewers only is *)
(* solved with status OPTIMAL, the shadow and reverse_shadow entries empty *)
(* for every seat.                                                         *)
C18_TrainedOnlySolved ==
    (TrainedOnly /\ Len(request.stages) = 1 /\ ~WindowsOrStagesInvalid) =>
        /\ pc # "error"
        /\ pc = "done" =>
              /\ result.status = "OPTIMAL"
              /\ \A sch \in Range(FinalSchedules) : \A e \in 1..Len(sch.events) :
                    /\ RoleMap(sch.events[e], "shadow") = <<>>
                    /\ RoleMap(sch.events[e], "reverse_shadow") = <<>>

(* C18, amended: a request of one stage with trained interviewers only is  *)
(* rejected at construction with the empty-candidate-pool error (the       *)
(* shadow pool of its first seat is empty); nothing is solved.             *)
C18_TrainedOnlyRejected ==
    (TrainedOnly /\ Len(request.stages) = 1 /\ ~WindowsOrStagesInvalid) =>
        /\ pc \in {"new", "error"}
        /\ pc = "error" => error = "empty_pool"
        /\ NothingSolved

(* the trained-only request of one stage, rejected for its empty pool *)
C18_Witness ==
    /\ TrainedOnly
    /\ Len(request.stages) = 1
    /\ Len(request.interviewers) = 2
    /\ ~WindowsOrStagesInvalid
    /\ pc = "error"
    /\ error = "empty_pool"

(* C19: a request without an interviewer of mode shadow, or without one of *)
(* mode reverse_shadow, never yields a schedule: it ends in an error or in *)
(* status INFEASIBLE.                                                      *)
C19_MissingModeNoSchedule ==
    (~RequestHasMode("shadow") \/ ~RequestHasMode("reverse_shadow")) =>
        /\ phase1_result.schedules = <<>>
        /\ result.schedules = <<>>
        /\ pc # "new" => \/ pc = "error" /\ error # "none"
                         \/ pc = "done" /\ result.status = "INFEASIBLE"

(* trained and shadow interviewers but no reverse_shadow one: rejected *)
C19_Witness ==
    /\ RequestHasMode("trained")
    /\ RequestHasMode("shadow")
    /\ ~RequestHasMode("reverse_shadow")
    /\ ~WindowsOrStagesInvalid
    /\ pc = "error"
    /\ error = "empty_pool"

-----------------------------------------------------------------------------
(* C20 as stated: for scenario S1 the result has status OPTIMAL and the    *)
(* top-ranked schedule's first event starts at 09:00, its second event     *)
(* starts at 11:30 and ends at 12:15.                                      *)
C20_S1TopSchedule ==
    (request = S1Request /\ pc = "done") =>
        /\ result.status = "OPTIMAL"
        /\ HasKey(result.schedules, 1)
        /\ LET top == Get(result.schedules, 1)
           IN  /\ Len(top.events) = 2
               /\ top.events[1].start = [day |-> 0, hh |-> 9, mm |-> 0]
               /\ top.events[2].start = [day |-> 0, hh |-> 11, mm |-> 30]
               /\ top.events[2].end = [day |-> 0, hh |-> 12, mm |-> 15]

-----------------------------------------------------------------------------
(* the trained interviewers of the request *)
RequestTrained ==
    SelectSeq(request.interviewers, LAMBDA iv : iv.mode = "trained")

RequestLast2w(id) ==
    request.interviewers[CHOOSE n \in 1..Len(request.interviewers) :
                            request.interviewers[n].id = id].last2w_load

(* every trained interviewer is free of busy intervals and within the      *)
(* weekly limit for all the stages, and every stage has one seat           *)
TrainedEquallyFeasible ==
    /\ \A n \in 1..Len(RequestTrained) :
          /\ \A b \in 1..Len(request.busy_intervals) :
                request.busy_intervals[b].interviewer_id # RequestTrained[n].id
          /\ RequestTrained[n].current_load + Len(request.stages) <= request.weekly_limit
    /\ \A i \in 1..Len(request.stages) : Len(request.stages[i].seats) = 1

(* C21 as stated: when the trained interviewers are equally feasible for a *)
(* seat and differ in last2w_load, schedule1 assigns the one with the      *)
(* lower last2w_load.                                                      *)
C21_LowerLoadChosen ==
    (pc = "done" /\ TrainedEquallyFeasible /\ HasKey(result.schedules, 1)) =>
        LET top == Get(result.schedules, 1)
        IN  \A e \in 1..Len(top.events) :
                \A id \in Range(Values(RoleMap(top.events[e], "trained"))) :
                    \A n \in 1..Len(RequestTrained) :
                        RequestLast2w(id) <= RequestTrained[n].last2w_load

(* C22 as stated: every permutation is given the quota                     *)
(* q = max(1, top_k_solutions / P) and collects at most q solutions,       *)
(* whatever the earlier permutations collected.                            *)
C22_EqualQuota ==
    pc = "solving" =>
        LET q == Max(1, request.top_k_solutions \div Len(stage_permutations))
        IN  /\ remaining_solutions = q
            /\ Len(solutions) <= q

(* C22, amended: the quota of a permutation is what is left of             *)
(* top_k_solutions after the solutions of the earlier permutations,        *)
(* max(0, top_k_solutions - len(all_solutions)); the collector never holds *)
(* more than that.                                                         *)
C22_RemainingQuota ==
    pc = "solving" =>
        /\ remaining_solutions = Max(0, request.top_k_solutions - Len(all_solutions))
        /\ Len(solutions) <= remaining_solutions
        /\ perm_idx = 1 => remaining_solutions = request.top_k_solutions

(* the second permutation is left a smaller quota than the first had, and  *)
(* has filled it                                                           *)
C22_Witness ==
    /\ pc = "solving"
    /\ perm_idx = 2
    /\ all_solutions # <<>>
    /\ remaining_solutions >= 1
    /\ remaining_solutions < request.top_k_solutions
    /\ Len(solutions) = remaining_solutions

(* C23 as stated: once the collector holds its quota the solver reports no *)
(* further solution of that permutation to the callback.                   *)
C23_SearchStopsAtQuota ==
    [][ (/\ pc = "solving"
         /\ Len(solutions) >= remaining_solutions
         /\ pc' = "solving"
         /\ perm_idx' = perm_idx) => last_objective' = last_objective ]_vars

(* C23, amended: once the collector holds its quota the callback captures  *)
(* nothing more; the search itself goes on and the callback is still       *)
(* called.                                                                 *)
C23_QuotaStopsCapture ==
    [][ (/\ pc = "solving"
         /\ Len(solutions) >= remaining_solutions
         /\ pc' = "solving"
         /\ perm_idx' = perm_idx) => solutions' = solutions ]_vars

(* the collector is full and the solver has since reported a better        *)
(* solution, which was not captured                                        *)
C23_Witness ==
    /\ pc = "solving"
    /\ remaining_solutions >= 1
    /\ Len(solutions) = remaining_solutions
    /\ last_objective < solutions[Len(solutions)][1]

-----------------------------------------------------------------------------
(* the feasible solutions of every permutation, each with its permutation *)
AllFeasible ==
    UNION { { <<p, sol>> : sol \in FeasibleSolutions(stage_permutations[p]) } :
              p \in 1..Len(stage_permutations) }

(* the sum of 1 + last2w_load over the interviewer-stage pairs of a solution *)
CostOf(ps) ==
    SumSeq([i \in 1..Len(ps[2].assign) |->
              SumSeq([k \in 1..Len(ps[2].assign[i]) |->
                        1 + RequestLast2w(ps[2].assign[i][k])])])

SpanOf(ps) ==
    LET perm_stages == stage_permutations[ps[1]]
        n           == Len(perm_stages)
    IN  ps[2].start[n] + perm_stages[n].duration_minutes - ps[2].start[1]

ScoreOf(ps) == ObjectiveValue(stage_permutations[ps[1]], ps[2])

(* C25 as stated: of two feasible solutions of a request the one of        *)
(* smaller assignment cost has the smaller score, whatever their spans.    *)
C25_FairnessDominates ==
    pc = "merge" =>
        \A A, B \in AllFeasible : CostOf(A) < CostOf(B) => ScoreOf(A) < ScoreOf(B)

(* C25, amended: the score is 100 * assignment cost + span, so the         *)
(* solution of smaller assignment cost has the smaller score exactly when  *)
(* its span is less than 100 * (difference of the costs) minutes longer;   *)
(* between solutions of equal cost the span decides.                       *)
C25_FairnessWeighted ==
    pc = "merge" =>
        \A A, B \in AllFeasible :
            /\ ScoreOf(A) = 100 * CostOf(A) + SpanOf(A)
            /\ CostOf(A) < CostOf(B) =>
                  (ScoreOf(A) < ScoreOf(B)
                      <=> SpanOf(A) - SpanOf(B) < 100 * (CostOf(B) - CostOf(A)))
            /\ CostOf(A) = CostOf(B) => (ScoreOf(A) < ScoreOf(B) <=> SpanOf(A) < SpanOf(B))

(* a solution of smaller cost and longer span that has the smaller score *)
C25_Witness ==
    /\ pc = "merge"
    /\ \E A, B \in AllFeasible :
          /\ CostOf(A) < CostOf(B)
          /\ SpanOf(A) > SpanOf(B)
          /\ ScoreOf(A) < ScoreOf(B)

(* the sum of 1 + last2w_load over the trained interviewers of an event *)
TrainedWeight(ev) ==
    LET ids == Values(RoleMap(ev, "trained"))
    IN  SumSeq([k \in 1..Len(ids) |-> 1 + RequestLast2w(ids[k])])

(* C26: the score of every returned schedule is 100 * (sum over its events *)
(* and their trained interviewers of 1 + last2w_load) + (last event end -  *)
(* first event start), so score - total_span_minutes is 100 * that sum;    *)
(* the shadow and reverse_shadow entries do not enter it.                  *)
C26_ScoreIsFairnessPlusSpan ==
    /\ \A sch \in ReturnedSchedules :
          LET fairness == SumSeq([e \in 1..Len(sch.events) |-> TrainedWeight(sch.events[e])])
              span     == EventEnd(sch.events[Len(sch.events)]) - EventStart(sch.events[1])
          IN  /\ sch.score = 100 * fairness + span
              /\ sch.metrics.total_span_minutes = span
              /\ sch.score - sch.metrics.total_span_minutes = 100 * fairness
    /\ pc = "done" =>
          \A i \in 1..Len(result.schedules) :
              result.schedules[i][2].score = phase1_result.schedules[i][2].score

(* a final schedule of two events with shadows, one of its trained         *)
(* interviewers carrying a last2w_load                                     *)
C26_Witness ==
    /\ pc = "done"
    /\ \E sch \in Range(FinalSchedules) :
          /\ Len(sch.events) = 2
          /\ RoleMap(sch.events[1], "shadow") # <<>>
          /\ \E id \in Range(Values(RoleMap(sch.events[1], "trained"))) :
                RequestLast2w(id) > 0
          /\ sch.score > sch.metrics.total_span_minutes + 200

(* the interviewers of the request of a mode that no busy interval keeps   *)
(* from the event, in request order                                        *)
AvailableFor(ev, role) ==
    LET free == SelectSeq(request.interviewers, LAMBDA iv :
                    /\ iv.mode = role
                    /\ \A b \in 1..Len(RequestBusy) :
                          RequestBusy[b].interviewer_id = iv.id =>
                              \/ EventEnd(ev) <= RequestBusy[b].start
                              \/ RequestBusy[b].end <= EventStart(ev))
    IN  [i \in 1..Len(free) |-> free[i].id]

(* C27: in every event, for shadow and for reverse_shadow, the k-th seat   *)
(* of the trained map receives the k-th available interviewer of the role, *)
(* no interviewer twice, exactly min(#seats, #available) seats receive one *)
(* and the other seats are left without the role.                          *)
C27_GreedyInOrder ==
    pc = "done" =>
        \A sch \in Range(FinalSchedules) : \A e \in 1..Len(sch.events) :
            \A role \in {"shadow", "reverse_shadow"} :
                LET ev    == sch.events[e]
                    seats == Keys(RoleMap(ev, "trained"))
                    avail == AvailableFor(ev, role)
                    n     == Min(Len(seats), Len(avail))
                    given == RoleMap(ev, role)
                IN  /\ Keys(given) = SubSeq(seats, 1, n)
                    /\ Values(given) = SubSeq(avail, 1, n)
                    /\ \A a, b \in 1..Len(given) : given[a][2] = given[b][2] => a = b
                    /\ HasKey(ev.assigned, role) <=> n > 0

(* an event of two seats: both receive a shadow, in request order, and the *)
(* single reverse_shadow goes to the first seat only                       *)
C27_Witness ==
    /\ pc = "done"
    /\ \E sch \in Range(FinalSchedules) : \E e \in 1..Len(sch.events) :
          /\ Len(RoleMap(sch.events[e], "trained")) = 2
          /\ Len(RoleMap(sch.events[e], "shadow")) = 2
          /\ Values(RoleMap(sch.events[e], "shadow")) = AvailableFor(sch.events[e], "shadow")
          /\ Len(RoleMap(sch.events[e], "reverse_shadow")) = 1

(* C28 as stated: from construction on, stages, interviewers and           *)
(* all_interviewers keep the values __init__ gave them, in every state of  *)
(* solve_with_two_phase_approach.                                          *)
C28_ProblemDataReadOnly ==
    pc \in {"constructed", "solving", "merge", "phase2", "done"} =>
        LET ivs  == _parse_interviewers(request.interviewers)
            stgs == _parse_stages(request.stages, ivs)
        IN  /\ stages = stgs
            /\ interviewers = ivs
            /\ all_interviewers = AllInterviewers(stgs)

(* the request without its shadow and reverse_shadow interviewers and      *)
(* without their busy intervals                                            *)
TrainedProjection == SelectSeq(request.interviewers, LAMBDA d : d.mode = "trained")

TrainedBusy ==
    SelectSeq(RequestBusy, LAMBDA b :
        \E i \in 1..Len(TrainedProjection) : TrainedProjection[i].id = b.interviewer_id)

TrainedStages ==
    LET stgs == _parse_stages(request.stages, _parse_interviewers(TrainedProjection))
    IN  [s \in 1..Len(stgs) |-> TempStage(stgs[s])]

TrainedNotBusy(perm_stages, sol) ==
    \A i \in 1..Len(perm_stages) : \A k \in 1..Len(sol.assign[i]) :
        \A b \in 1..Len(TrainedBusy) :
            TrainedBusy[b].interviewer_id = sol.assign[i][k] =>
                \/ sol.start[i] + perm_stages[i].duration_minutes
                      <= TrainedBusy[b].start - RequestEpoch
                \/ sol.start[i] >= TrainedBusy[b].end - RequestEpoch

(* C29: what Phase 1 solves is determined by the request without its       *)
(* observers: the stages, interviewers and permutations it works on and    *)
(* the solutions of each permutation's model are those of the request      *)
(* stripped of its shadow and reverse_shadow interviewers and of their     *)
(* busy intervals, and Phase 2 keeps the times, the trained assignments    *)
(* and the score of every rank.                                            *)
C29_ObserversDoNotInfluence ==
    /\ pc \in {"solving", "merge"} =>
          /\ stages = TrainedStages
          /\ interviewers = _parse_interviewers(TrainedProjection)
          /\ all_interviewers = AllInterviewers(TrainedStages)
          /\ stage_permutations = generate_stage_permutations(TrainedStages)
    /\ pc = "merge" =>
          \A p \in 1..Len(stage_permutations) :
              LET perm_stages == stage_permutations[p]
              IN  FeasibleSolutions(perm_stages)
                    = { sol \in [start : Timings(perm_stages),
                                 assign : Assignments(perm_stages)] :
                          TrainedNotBusy(perm_stages, sol) }
    /\ pc = "done" =>
          /\ Len(FinalSchedules) = Len(Phase1Schedules)
          /\ \A i \in 1..Len(FinalSchedules) :
                /\ FinalSchedules[i].score = Phase1Schedules[i].score
                /\ Len(FinalSchedules[i].events) = Len(Phase1Schedules[i].events)
                /\ \A e \in 1..Len(FinalSchedules[i].events) :
                      LET f == FinalSchedules[i].events[e]
                          g == Phase1Schedules[i].events[e]
                      IN  /\ f.start = g.start /\ f.end = g.end
                          /\ f.stage_name = g.stage_name
                          /\ RoleMap(f, "trained") = RoleMap(g, "trained")

(* a schedule is returned for a request in which a shadow has a busy       *)
(* interval that overlaps the event and sits out                           *)
C29_Witness ==
    /\ pc = "done"
    /\ \E sch \in Range(FinalSchedules) : \E e \in 1..Len(sch.events) :
          \E b \in 1..Len(RequestBusy) :
              /\ \E i \in 1..Len(request.interviewers) :
                    /\ request.interviewers[i].id = RequestBusy[b].interviewer_id
                    /\ request.interviewers[i].mode = "shadow"
              /\ RequestBusy[b].start < EventEnd(sch.events[e])
              /\ EventStart(sch.events[e]) < RequestBusy[b].end
              /\ RequestBusy[b].interviewer_id
                    \notin Range(Values(RoleMap(sch.events[e], "shadow")))

(* the permutations whose solve is over *)
SolvedPermutations ==
    IF pc = "solving" THEN 1..(perm_idx - 1)
    ELSE IF pc = "merge" THEN 1..Len(stage_permutations)
    ELSE {}

Contributed(p) ==
    { n \in 1..Len(all_solutions) :
        EventNames(all_solutions[n][2].events) = StageNamesOf(stage_permutations[p]) }

(* C30: a permutation whose model is feasible has at least one solution in *)
(* the merged list, whatever quota was left for it, and one whose model is *)
(* infeasible has none; with a quota of 0 the callback captures nothing.   *)
C30_FeasiblePermutationContributes ==
    /\ (pc = "solving" /\ remaining_solutions = 0) => solutions = <<>>
    /\ \A p \in SolvedPermutations :
          FeasibleSolutions(stage_permutations[p]) # {} <=> Contributed(p) # {}

(* the second permutation was solved with a quota of 0 and contributed *)
C30_Witness ==
    /\ pc = "merge"
    /\ Len(stage_permutations) = 2
    /\ request.top_k_solutions = 1
    /\ Contributed(1) # {}
    /\ Contributed(2) # {}


====
